---- MODULE Spec2Model ----
(***************************************************************************)
(* Model of delay.c (EFM32 delay/sleep module): the delay and sleep        *)
(* operations, the lazy SysTick/RTC initialisation, the wake-up accessors  *)
(* and the two interrupt handlers, together with the parts of the RTC,     *)
(* CMU, NVIC and SysTick peripherals that the code drives.                 *)
(*                                                                         *)
(* Main context and interrupt context share one core: a handler preempts   *)
(* the main context between two statements and runs to completion, so a    *)
(* handler is one action and every statement of delay/sleep that touches   *)
(* shared state or a peripheral is one action.                             *)
(*                                                                         *)
(* uint32_t values are pairs <<hi, lo>> of 16-bit halves, because the      *)
(* 32-bit product of the range check in sleep must keep its width.         *)
(***************************************************************************)
EXTENDS Integers, Sequences, FiniteSets, TLC

VARIABLES
    SYSTICKDELAY,      \* build option: 1 = SysTick delay, 0 = RTC (EM2/3) delay
    ULFRCO,            \* build option: 1 = ULFRCO (EM3), 0 = LFXO (EM2)
    RTC_sleep_wakeup,  \* static volatile bool
    sleeping,          \* bool
    RTC_initialized,   \* bool
    SysTick_initialized, \* bool
    msTicks,           \* static volatile uint32_t
    curTicks,          \* local of delay (SysTick branch)
    cmu,               \* clock management unit: gates, oscillator, LFA routing
    rtc,               \* RTC peripheral: EN, CNT, COMP0, IF, IEN, COMP0TOP
    nvic,              \* NVIC enable bit of RTC_IRQn
    sysTick,           \* SysTick->CTRL: TICKINT | ENABLE
    pc,                \* position of the main context
    call,              \* the call in progress / last returned: arguments and what it did
    gps,               \* values returned by consecutive RTC_getPassedSleeptime calls
    chk,               \* value returned by the last RTC_checkWakeup
    last,              \* the public operation that returned last ("none" during a call)
    inits              \* how often initRTC and SysTick_Config have run

vars == <<SYSTICKDELAY, ULFRCO, RTC_sleep_wakeup, sleeping, RTC_initialized,
          SysTick_initialized, msTicks, curTicks, cmu, rtc, nvic, sysTick,
          pc, call, gps, chk, last, inits>>

build == <<SYSTICKDELAY, ULFRCO>>
flags == <<RTC_sleep_wakeup, sleeping, RTC_initialized, SysTick_initialized>>
hw    == <<cmu, rtc, nvic, sysTick>>

----------------------------------------------------------------------------
(* Bounds of the model *)

\* SysTick_Handler runs until msTicks has this value
MaxTicks == 4
\* longest SysTick delay (in ticks) the model calls
MaxTickDelay == 2
\* distance below 2^32 at which the model resumes following msTicks tick by tick
WrapLead == 2

----------------------------------------------------------------------------
(* Program constants *)

ULFRCOFREQ == 1000
LFXOFREQ == 32768
\* 0x00ffffff, the largest value of the 24-bit compare field
FIELD_MAX == 16777215

----------------------------------------------------------------------------
(* uint32_t arithmetic on <<hi, lo>> pairs *)

W16 == 2^16

U32(n) == <<n \div W16, n % W16>>

UINT32_MAX == <<W16 - 1, W16 - 1>>

\* f * x modulo 2^32, for a factor 0 <= f <= 32768
Mul32(f, x) ==
    LET p0 == f * x[2]
        c  == p0 \div W16
    IN  <<(f * x[1] + c) % W16, p0 % W16>>

Inc32(x) ==
    IF x[2] < W16 - 1 THEN <<x[1], x[2] + 1>>
    ELSE <<(x[1] + 1) % W16, 0>>

\* a - b modulo 2^32
Sub32(a, b) ==
    IF a[2] >= b[2] THEN <<(a[1] - b[1] + W16) % W16, a[2] - b[2]>>
    ELSE <<(a[1] - b[1] - 1 + W16) % W16, a[2] - b[2] + W16>>

Lt32(a, b) == a[1] < b[1] \/ (a[1] = b[1] /\ a[2] < b[2])

Le32(a, b) == a = b \/ Lt32(a, b)

\* the number a pair stands for; defined for values below 2^31
Val(x) == x[1] * W16 + x[2]

Zero32 == <<0, 0>>

----------------------------------------------------------------------------
(* Duration -> native ticks, and the range checks (delay.c 203, 222, 343, 362) *)

\* tick frequency of the selected oscillator
Freq == IF ULFRCO = 1 THEN ULFRCOFREQ ELSE LFXOFREQ

\* (ULFRCOFREQ * sSleep) / (LFXOFREQ * sSleep): int * uint32_t, computed modulo 2^32
sleep_ticks(sSleep) == Mul32(Freq, sSleep)

\* variant of lines 343/362 with a limit one bit too wide: "<= 0x01ffffff"
sleep_fits_wide(sSleep) == Le32(sleep_ticks(sSleep), U32(2 * FIELD_MAX + 1))

\* ((FREQ * sSleep) <= 0x00ffffff)
sleep_fits(sSleep) == Le32(sleep_ticks(sSleep), U32(FIELD_MAX))

\* ((FREQ_MS * msDelay) <= 0x00ffffff): a double product, which does not wrap.
\* ULFRCOFREQ_MS = 1.000; LFXOFREQ_MS = 32.768 = 4096/125.  The double
\* product and the exact product agree on the comparison and on the integer
\* part for every msDelay (msDelay >= 2^19 is above the field either way).
delay_fits(msDelay) ==
    IF ULFRCO = 1 THEN Le32(msDelay, U32(FIELD_MAX))
    ELSE msDelay[1] < 8 /\ Val(msDelay) * 4096 <= FIELD_MAX * 125

\* the double product converted to the uint32_t parameter of RTC_CompareSet
\* (truncation toward zero); used only when delay_fits holds
delay_ticks(msDelay) ==
    IF ULFRCO = 1 THEN msDelay
    ELSE U32((Val(msDelay) * 4096) \div 125)

----------------------------------------------------------------------------
(* Peripherals, as the emlib calls of delay.c drive them *)

\* RTC_Enable(enable): sets/clears CTRL.EN; the RTC counter is cleared when
\* the RTC is disabled (a disable/enable sequence restarts it from zero)
RTC_Enable(r, enable) ==
    IF enable THEN [r EXCEPT !.en = TRUE]
    ELSE [r EXCEPT !.en = FALSE, !.cnt = 0]

\* RTC_CompareSet(0, value)
RTC_CompareSet(r, value) == [r EXCEPT !.comp0 = Val(value)]

\* RTC_IntClear(RTC_IFC_COMP0)
RTC_IntClear(r) == [r EXCEPT !.ifl = FALSE]

\* RTC_IntEnable(RTC_IEN_COMP0)
RTC_IntEnable(r) == [r EXCEPT !.ien = TRUE]

\* RTC_Init(&rtc) with RTC_INIT_DEFAULT and rtc.enable = false:
\* CTRL = COMP0TOP, counter not started
RTC_Init(r) == [RTC_Enable(r, FALSE) EXCEPT !.comp0top = TRUE]

\* CMU_ClockEnable(cmuClock_RTC, enable)
CMU_ClockEnable_RTC(c, enable) == [c EXCEPT !.rtc = enable]

\* the RTC interrupt is requested: COMP0 flag set, enabled in the RTC and the NVIC
IrqPending == rtc.ifl /\ rtc.ien /\ nvic

\* the main context executes its next statement only when no handler is due
CpuRuns == ~IrqPending

\* the CPU is in EM2/EM3 (inside EMU_EnterEM2 / EMU_EnterEM3)
InEM == pc \in {"dR_wait", "s_wait"}

----------------------------------------------------------------------------
(* Calls *)

NoCall ==
    [op |-> "none", arg |-> Zero32, wake0 |-> FALSE, en0 |-> FALSE, comp00 |-> 0,
     sleeping0 |-> FALSE, first |-> FALSE, path |-> "none", wroteComp |-> FALSE,
     started |-> FALSE, waited |-> FALSE, cnt0 |-> 0, ticks |-> 0, woke |-> "none"]

\* the record of a call at its entry: its argument and the state it found
NewCall(op, arg) ==
    [NoCall EXCEPT !.op = op, !.arg = arg, !.wake0 = RTC_sleep_wakeup,
                   !.en0 = rtc.en, !.comp00 = rtc.comp0, !.sleeping0 = sleeping]

\* arguments the model calls sleep with (seconds)
SleepArgs ==
    IF SYSTICKDELAY = 1 THEN {U32(0), U32(5), UINT32_MAX}
    ELSE IF ULFRCO = 1
    THEN {U32(0), U32(5), U32(16777), U32(16778), U32(4294968), UINT32_MAX}
    ELSE {U32(0), U32(5), U32(511), U32(512), U32(131072), UINT32_MAX}

\* arguments the model calls delay with (milliseconds)
DelayArgs ==
    IF SYSTICKDELAY = 1 THEN {U32(n) : n \in 0..MaxTickDelay}
    ELSE IF ULFRCO = 1
    THEN {U32(0), U32(1), U32(16777215), U32(16777216), UINT32_MAX}
    ELSE {U32(0), U32(1), U32(511999), U32(512000), UINT32_MAX}

Init ==
    /\ SYSTICKDELAY \in {0, 1}
    /\ ULFRCO \in {0, 1}
    /\ RTC_sleep_wakeup = FALSE
    /\ sleeping = FALSE
    /\ RTC_initialized = FALSE
    /\ SysTick_initialized = FALSE
    /\ msTicks = Zero32
    /\ curTicks = Zero32
    /\ cmu = [rtc |-> FALSE, hfle |-> FALSE, lfxo |-> FALSE, lfa |-> "reset"]
    /\ rtc = [en |-> FALSE, cnt |-> 0, comp0 |-> 0, ifl |-> FALSE, ien |-> FALSE,
              comp0top |-> FALSE]
    /\ nvic = FALSE
    /\ sysTick = FALSE
    /\ pc = "idle"
    /\ call = NoCall
    /\ gps = <<>>
    /\ chk = FALSE
    /\ last = "none"
    /\ inits = [rtc |-> 0, sysTick |-> 0]

----------------------------------------------------------------------------
(* initRTC (delay.c 481-535) *)

initRTC_forgetsFlag ==
    /\ cmu' = [cmu EXCEPT !.lfxo = IF ULFRCO = 1 THEN @ ELSE TRUE,
                          !.hfle = TRUE,
                          !.lfa = IF ULFRCO = 1 THEN "ULFRCO" ELSE "LFXO",
                          !.rtc = TRUE]
    /\ rtc' = RTC_Init(RTC_IntClear(RTC_IntEnable(rtc)))
    /\ nvic' = TRUE
    /\ RTC_initialized' = RTC_initialized
    /\ inits' = [inits EXCEPT !.rtc = @ + 1]

initRTC ==
    /\ cmu' = [cmu EXCEPT !.lfxo = IF ULFRCO = 1 THEN @ ELSE TRUE,
                          !.hfle = TRUE,
                          !.lfa = IF ULFRCO = 1 THEN "ULFRCO" ELSE "LFXO",
                          !.rtc = TRUE]
    /\ rtc' = RTC_Init(RTC_IntClear(RTC_IntEnable(rtc)))
    /\ nvic' = TRUE
    /\ RTC_initialized' = TRUE
    /\ inits' = [inits EXCEPT !.rtc = @ + 1]

\* "if (!RTC_initialized) initRTC(); else { if (n > 0) CMU_ClockEnable(cmuClock_RTC, true); }"
\* the common head of delay (RTC branch) and sleep
EnsureRTC ==
    IF ~RTC_initialized THEN initRTC
    ELSE /\ cmu' = IF Lt32(Zero32, call.arg) THEN CMU_ClockEnable_RTC(cmu, TRUE) ELSE cmu
         /\ UNCHANGED <<rtc, nvic, RTC_initialized, inits>>

----------------------------------------------------------------------------
(* sleep (delay.c 293-422) *)

sleep_call(sSleep) ==
    /\ pc = "idle"
    /\ CpuRuns
    /\ pc' = "s_init"
    /\ call' = NewCall("sleep", sSleep)
    /\ gps' = <<>>
    /\ chk' = FALSE
    /\ last' = "none"
    /\ UNCHANGED <<build, inits, flags, msTicks, curTicks, hw>>

\* lines 296-326
sleep_Init ==
    /\ pc = "s_init"
    /\ CpuRuns
    /\ EnsureRTC
    /\ IF Lt32(Zero32, call.arg)
       THEN /\ pc' = "s_compare"
            /\ call' = [call EXCEPT !.first = ~RTC_initialized]
       ELSE /\ pc' = "ret"
            /\ call' = [call EXCEPT !.first = ~RTC_initialized, !.path = "init_only"]
    /\ UNCHANGED <<build, RTC_sleep_wakeup, sleeping, SysTick_initialized, msTicks,
                   curTicks, sysTick, gps, chk, last>>

\* lines 341-379
sleep_Compare ==
    /\ pc = "s_compare"
    /\ CpuRuns
    /\ IF sleep_fits(call.arg)
       THEN /\ rtc' = RTC_CompareSet(rtc, sleep_ticks(call.arg))
            /\ pc' = "s_flag"
            /\ call' = [call EXCEPT !.wroteComp = TRUE]
            /\ cmu' = cmu
       ELSE /\ cmu' = CMU_ClockEnable_RTC(cmu, FALSE)
            /\ pc' = "ret"
            /\ call' = [call EXCEPT !.path = "out_of_range"]
            /\ rtc' = rtc
    /\ UNCHANGED <<build, inits, flags, msTicks, curTicks, nvic, sysTick, gps, chk, last>>

\* line 382
sleep_SetSleeping ==
    /\ pc = "s_flag"
    /\ CpuRuns
    /\ sleeping' = TRUE
    /\ pc' = "s_enable"
    /\ UNCHANGED <<build, inits, RTC_sleep_wakeup, RTC_initialized, SysTick_initialized,
                   msTicks, curTicks, hw, call, gps, chk, last>>

\* line 386
sleep_Enable ==
    /\ pc = "s_enable"
    /\ CpuRuns
    /\ rtc' = RTC_Enable(rtc, TRUE)
    /\ pc' = "s_em"
    /\ call' = [call EXCEPT !.started = TRUE, !.cnt0 = rtc.cnt, !.ticks = 0]
    /\ UNCHANGED <<build, inits, flags, msTicks, curTicks, cmu, nvic, sysTick, gps, chk, last>>

\* lines 390-397: EMU_EnterEM3(true) / EMU_EnterEM2(true) suspends the CPU
sleep_EnterEM ==
    /\ pc = "s_em"
    /\ CpuRuns
    /\ pc' = "s_wait"
    /\ call' = [call EXCEPT !.waited = TRUE]
    /\ UNCHANGED <<build, inits, flags, msTicks, curTicks, hw, gps, chk, last>>

\* variant of line 400: the flag is not reset after the wake-up
sleep_ClearSleeping_forgets ==
    /\ pc = "s_resume"
    /\ CpuRuns
    /\ sleeping' = sleeping
    /\ pc' = "s_clockoff"
    /\ UNCHANGED <<build, inits, RTC_sleep_wakeup, RTC_initialized, SysTick_initialized,
                   msTicks, curTicks, hw, call, gps, chk, last>>

\* line 400
sleep_ClearSleeping ==
    /\ pc = "s_resume"
    /\ CpuRuns
    /\ sleeping' = FALSE
    /\ pc' = "s_clockoff"
    /\ UNCHANGED <<build, inits, RTC_sleep_wakeup, RTC_initialized, SysTick_initialized,
                   msTicks, curTicks, hw, call, gps, chk, last>>

\* line 420
sleep_ClockOff ==
    /\ pc = "s_clockoff"
    /\ CpuRuns
    /\ cmu' = CMU_ClockEnable_RTC(cmu, FALSE)
    /\ pc' = "ret"
    /\ call' = [call EXCEPT !.path = call.woke]
    /\ UNCHANGED <<build, inits, flags, msTicks, curTicks, rtc, nvic, sysTick, gps, chk, last>>

----------------------------------------------------------------------------
(* delay (delay.c 124-280) *)

\* msTicks values from which the model follows single ticks: the first
\* MaxTicks values after 0 and the last WrapLead values before the wrap
WrapStart == Sub32(Zero32, U32(WrapLead))

TickRoom == Lt32(msTicks, U32(MaxTicks)) \/ Le32(WrapStart, msTicks)

\* variant of line 157 without modular subtraction: "msTicks < curTicks + msDelay"
LoopContinues_sum(ms, cur, d) == Lt32(ms, Sub32(cur, Sub32(Zero32, d)))

\* line 157: "(msTicks - curTicks) < msDelay", unsigned 32-bit
LoopContinues(ms, cur, d) == Lt32(Sub32(ms, cur), d)

delay_call(msDelay) ==
    /\ pc = "idle"
    /\ CpuRuns
    /\ SYSTICKDELAY = 1 => TickRoom
    /\ pc' = IF SYSTICKDELAY = 1 THEN "dS_init" ELSE "dR_init"
    /\ call' = NewCall("delay", msDelay)
    /\ gps' = <<>>
    /\ chk' = FALSE
    /\ last' = "none"
    /\ UNCHANGED <<build, inits, flags, msTicks, curTicks, hw>>

\* SysTick branch, lines 130-153.  SysTick_Config(core clock / 1000) programs
\* the reload value, enables the counter and its interrupt and returns 0 (the
\* reload value fits the 24-bit reload field for every core clock of the
\* device), so the "while (1)" of line 134 is not entered.
delay_SysTickInit ==
    /\ pc = "dS_init"
    /\ CpuRuns
    /\ IF ~SysTick_initialized
       THEN /\ sysTick' = TRUE
            /\ SysTick_initialized' = TRUE
            /\ inits' = [inits EXCEPT !.sysTick = @ + 1]
            /\ call' = [call EXCEPT !.first = TRUE, !.started = TRUE,
                           !.path = IF Lt32(Zero32, call.arg) THEN @ ELSE "init_only"]
       ELSE /\ sysTick' = IF Lt32(Zero32, call.arg) THEN TRUE ELSE sysTick
            /\ SysTick_initialized' = SysTick_initialized
            /\ inits' = inits
            /\ call' = [call EXCEPT !.started = Lt32(Zero32, call.arg),
                           !.path = IF Lt32(Zero32, call.arg) THEN @ ELSE "init_only"]
    /\ pc' = IF Lt32(Zero32, call.arg) THEN "dS_sample" ELSE "ret"
    /\ UNCHANGED <<build, RTC_sleep_wakeup, sleeping, RTC_initialized, msTicks,
                   curTicks, cmu, rtc, nvic, gps, chk, last>>

\* line 156
delay_Sample ==
    /\ pc = "dS_sample"
    /\ CpuRuns
    /\ curTicks' = msTicks
    /\ pc' = "dS_loop"
    /\ call' = [call EXCEPT !.waited = TRUE, !.ticks = 0]
    /\ UNCHANGED <<build, inits, flags, msTicks, hw, gps, chk, last>>

\* line 157: the loop is left when (msTicks - curTicks) < msDelay is false;
\* an iteration that stays in the loop changes nothing
delay_Poll ==
    /\ pc = "dS_loop"
    /\ CpuRuns
    /\ ~LoopContinues(msTicks, curTicks, call.arg)
    /\ pc' = "dS_disable"
    /\ UNCHANGED <<build, inits, flags, msTicks, curTicks, hw, call, gps, chk, last>>

\* line 160
delay_SysTickDisable ==
    /\ pc = "dS_disable"
    /\ CpuRuns
    /\ sysTick' = FALSE
    /\ pc' = "ret"
    /\ call' = [call EXCEPT !.path = "ticks"]
    /\ UNCHANGED <<build, inits, flags, msTicks, curTicks, cmu, rtc, nvic, gps, chk, last>>

\* RTC branch, lines 167-196
delay_RTCInit ==
    /\ pc = "dR_init"
    /\ CpuRuns
    /\ EnsureRTC
    /\ IF Lt32(Zero32, call.arg)
       THEN /\ pc' = "dR_compare"
            /\ call' = [call EXCEPT !.first = ~RTC_initialized]
       ELSE /\ pc' = "ret"
            /\ call' = [call EXCEPT !.first = ~RTC_initialized, !.path = "init_only"]
    /\ UNCHANGED <<build, RTC_sleep_wakeup, sleeping, SysTick_initialized, msTicks,
                   curTicks, sysTick, gps, chk, last>>

\* lines 199-239
delay_Compare ==
    /\ pc = "dR_compare"
    /\ CpuRuns
    /\ IF delay_fits(call.arg)
       THEN /\ rtc' = RTC_CompareSet(rtc, delay_ticks(call.arg))
            /\ pc' = "dR_enable"
            /\ call' = [call EXCEPT !.wroteComp = TRUE]
            /\ cmu' = cmu
       ELSE /\ cmu' = CMU_ClockEnable_RTC(cmu, FALSE)
            /\ pc' = "ret"
            /\ call' = [call EXCEPT !.path = "out_of_range"]
            /\ rtc' = rtc
    /\ UNCHANGED <<build, inits, flags, msTicks, curTicks, nvic, sysTick, gps, chk, last>>

\* line 243
delay_Enable ==
    /\ pc = "dR_enable"
    /\ CpuRuns
    /\ rtc' = RTC_Enable(rtc, TRUE)
    /\ pc' = "dR_em"
    /\ call' = [call EXCEPT !.started = TRUE, !.cnt0 = rtc.cnt, !.ticks = 0]
    /\ UNCHANGED <<build, inits, flags, msTicks, curTicks, cmu, nvic, sysTick, gps, chk, last>>

\* lines 247-254
delay_EnterEM ==
    /\ pc = "dR_em"
    /\ CpuRuns
    /\ pc' = "dR_wait"
    /\ call' = [call EXCEPT !.waited = TRUE]
    /\ UNCHANGED <<build, inits, flags, msTicks, curTicks, hw, gps, chk, last>>

\* line 275
delay_ClockOff ==
    /\ pc = "dR_clockoff"
    /\ CpuRuns
    /\ cmu' = CMU_ClockEnable_RTC(cmu, FALSE)
    /\ pc' = "ret"
    /\ call' = [call EXCEPT !.path = call.woke]
    /\ UNCHANGED <<build, inits, flags, msTicks, curTicks, rtc, nvic, sysTick, gps, chk, last>>

\* delay / sleep returns to its caller
Return ==
    /\ pc = "ret"
    /\ pc' = "idle"
    /\ last' = call.op
    /\ UNCHANGED <<build, inits, flags, msTicks, curTicks, hw, call, gps, chk>>

----------------------------------------------------------------------------
(* Wake-up accessors (delay.c 432-470) *)

\* variant of lines 432-435: a read that also clears the flag
RTC_checkWakeup_clears ==
    /\ pc = "idle"
    /\ CpuRuns
    /\ chk' = RTC_sleep_wakeup
    /\ RTC_sleep_wakeup' = FALSE
    /\ last' = IF last = "clear" THEN "clear_check" ELSE "check"
    /\ gps' = <<>>
    /\ UNCHANGED <<build, inits, sleeping, RTC_initialized, SysTick_initialized, msTicks,
                   curTicks, hw, pc, call>>

\* lines 432-435; last = "clear_check": the call directly follows RTC_clearWakeup
RTC_checkWakeup ==
    /\ pc = "idle"
    /\ CpuRuns
    /\ chk' = RTC_sleep_wakeup
    /\ last' = IF last = "clear" THEN "clear_check" ELSE "check"
    /\ gps' = <<>>
    /\ UNCHANGED <<build, inits, flags, msTicks, curTicks, hw, pc, call>>

\* variant of lines 442-445: the flag is left as it is
RTC_clearWakeup_keeps ==
    /\ pc = "idle"
    /\ CpuRuns
    /\ RTC_sleep_wakeup' = RTC_sleep_wakeup
    /\ last' = "clear"
    /\ gps' = <<>>
    /\ UNCHANGED <<build, inits, sleeping, RTC_initialized, SysTick_initialized, msTicks,
                   curTicks, hw, pc, call, chk>>

\* lines 442-445
RTC_clearWakeup ==
    /\ pc = "idle"
    /\ CpuRuns
    /\ RTC_sleep_wakeup' = FALSE
    /\ last' = "clear"
    /\ gps' = <<>>
    /\ UNCHANGED <<build, inits, sleeping, RTC_initialized, SysTick_initialized, msTicks,
                   curTicks, hw, pc, call, chk>>

\* the value RTC_getPassedSleeptime returns: RTC_CounterGet() / frequency
PassedSleeptime(r) == r.cnt \div Freq

\* last = "passed1": the call directly follows the return of delay/sleep;
\* "passed2": it directly follows that call; gps holds their results
RTC_getPassedSleeptime ==
    /\ pc = "idle"
    /\ CpuRuns
    /\ gps' = IF last = "passed1" THEN Append(gps, PassedSleeptime(rtc))
              ELSE <<PassedSleeptime(rtc)>>
    /\ rtc' = RTC_Enable(rtc, FALSE)
    /\ last' = IF last \in {"delay", "sleep"} THEN "passed1"
               ELSE IF last = "passed1" THEN "passed2" ELSE "passed"
    /\ UNCHANGED <<build, inits, flags, msTicks, curTicks, cmu, nvic, sysTick, pc, call, chk>>

----------------------------------------------------------------------------
(* Interrupt handlers (delay.c 543-567) and the hardware that raises them *)

\* variants of line 566: the flag is never raised / raised for a delay too
IRQ_wakeup_never == RTC_sleep_wakeup

IRQ_wakeup_always == TRUE

\* "if (sleeping) RTC_sleep_wakeup = true;"
IRQ_wakeup == IF sleeping THEN TRUE ELSE RTC_sleep_wakeup

\* variants of lines 559-563: the handler does not stop the counter / does
\* not clear the interrupt source
IRQ_stop_keepsCounting(r) == RTC_IntClear(r)

IRQ_stop_noClear(r) == RTC_Enable(r, FALSE)

\* "RTC_Enable(false); RTC_IntClear(RTC_IFC_COMP0);"
IRQ_stop(r) == RTC_IntClear(RTC_Enable(r, FALSE))

\* where the main context continues when the CPU leaves EM2/EM3
Resumed == IF pc = "s_wait" THEN "s_resume" ELSE "dR_clockoff"

\* The handler runs as soon as the interrupt is requested; when the CPU is in
\* EM2/EM3 the request wakes it and the handler runs before the statement
\* after EMU_EnterEMx.
RTC_IRQHandler ==
    /\ IrqPending
    /\ pc # "ret"
    /\ rtc' = IRQ_stop(rtc)
    /\ RTC_sleep_wakeup' = IRQ_wakeup
    /\ IF InEM
       THEN /\ pc' = Resumed
            /\ call' = [call EXCEPT !.woke = "compare"]
       ELSE UNCHANGED <<pc, call>>
    /\ UNCHANGED <<build, inits, sleeping, RTC_initialized, SysTick_initialized, msTicks,
                   curTicks, cmu, nvic, sysTick, gps, chk, last>>

\* An interrupt of another module (GPIO) wakes the CPU from EM2/EM3; its
\* handler touches nothing of this module.
ExternalWake ==
    /\ InEM
    /\ ~IrqPending
    /\ pc' = Resumed
    /\ call' = [call EXCEPT !.woke = "external"]
    /\ UNCHANGED <<build, inits, flags, msTicks, curTicks, hw, gps, chk, last>>

\* values the model lets the counter stop at between two other events
CounterMarks == {Freq - 1, Freq, FIELD_MAX}

\* The RTC counts while it is enabled and its clock gate is open: CNT goes
\* up, wraps to 0 after COMP0 (COMP0TOP) or after the 24-bit maximum, and the
\* COMP0 flag is set when CNT reaches COMP0.  One step of the model is one or
\* more ticks, never past COMP0; it can stop one tick before COMP0.
CounterNext(r) ==
    IF (r.comp0top /\ r.cnt = r.comp0) \/ r.cnt = FIELD_MAX THEN {0}
    ELSE {v \in CounterMarks \cup {r.comp0 - 1, r.comp0} :
              v > r.cnt /\ (r.cnt < r.comp0 => v <= r.comp0)}

TicksTo(r, v) == IF v > r.cnt THEN v - r.cnt ELSE 1

RTC_Count ==
    /\ rtc.en
    /\ cmu.rtc
    /\ ~IrqPending
    /\ pc # "ret"
    /\ \E v \in CounterNext(rtc) :
          /\ rtc' = [rtc EXCEPT !.cnt = v, !.ifl = @ \/ (v = rtc.comp0)]
          /\ call' = IF pc \in {"s_em", "s_wait", "dR_em", "dR_wait"}
                     THEN [call EXCEPT !.ticks = @ + TicksTo(rtc, v)]
                     ELSE call
    /\ UNCHANGED <<build, inits, flags, msTicks, curTicks, cmu, nvic, sysTick, pc, gps, chk, last>>

\* SysTick runs only while the core clock runs (not in EM2/EM3).  The loop of
\* line 157 evaluates its condition many times per millisecond, so inside the
\* loop a tick arrives only while the condition still holds.
SysTick_Handler ==
    /\ sysTick
    /\ ~InEM
    /\ pc # "ret"
    /\ IF pc = "dS_loop" THEN LoopContinues(msTicks, curTicks, call.arg) ELSE TickRoom
    /\ msTicks' = Inc32(msTicks)
    /\ call' = IF pc = "dS_loop" THEN [call EXCEPT !.ticks = @ + 1] ELSE call
    /\ UNCHANGED <<build, inits, flags, curTicks, hw, pc, gps, chk, last>>

\* SysTick left running between calls: the handler runs so often that
\* msTicks comes close to 2^32
SysTick_HandlerMany ==
    /\ sysTick
    /\ pc = "idle"
    /\ Lt32(msTicks, U32(MaxTicks))
    /\ msTicks' = WrapStart
    /\ UNCHANGED <<build, inits, flags, curTicks, hw, pc, call, gps, chk, last>>

----------------------------------------------------------------------------

Next ==
    \/ \E sSleep \in SleepArgs : sleep_call(sSleep)
    \/ sleep_Init
    \/ sleep_Compare
    \/ sleep_SetSleeping
    \/ sleep_Enable
    \/ sleep_EnterEM
    \/ sleep_ClearSleeping
    \/ sleep_ClockOff
    \/ \E msDelay \in DelayArgs : delay_call(msDelay)
    \/ delay_SysTickInit
    \/ delay_Sample
    \/ delay_Poll
    \/ delay_SysTickDisable
    \/ delay_RTCInit
    \/ delay_Compare
    \/ delay_Enable
    \/ delay_EnterEM
    \/ delay_ClockOff
    \/ Return
    \/ RTC_checkWakeup
    \/ RTC_clearWakeup
    \/ RTC_getPassedSleeptime
    \/ RTC_IRQHandler
    \/ ExternalWake
    \/ RTC_Count
    \/ SysTick_Handler
    \/ SysTick_HandlerMany

Spec == Init /\ [][Next]_vars

\* a statement of the call in progress
MainStep ==
    \/ sleep_Init
    \/ sleep_Compare
    \/ sleep_SetSleeping
    \/ sleep_Enable
    \/ sleep_EnterEM
    \/ sleep_ClearSleeping
    \/ sleep_ClockOff
    \/ delay_SysTickInit
    \/ delay_Sample
    \/ delay_Poll
    \/ delay_SysTickDisable
    \/ delay_RTCInit
    \/ delay_Compare
    \/ delay_Enable
    \/ delay_EnterEM
    \/ delay_ClockOff
    \/ Return

\* The CPU executes the next statement of a call unless it is in EM2/EM3, a
\* pending interrupt is served, and the RTC and SysTick keep counting while
\* they are enabled.
Fairness ==
    /\ WF_vars(MainStep)
    /\ WF_vars(RTC_IRQHandler)
    /\ WF_vars(RTC_Count)
    /\ WF_vars(SysTick_Handler)

FairSpec == Init /\ [][Next]_vars /\ Fairness

\* the program when no interrupt of another module arrives
NoWakeNext ==
    \/ \E sSleep \in SleepArgs : sleep_call(sSleep)
    \/ \E msDelay \in DelayArgs : delay_call(msDelay)
    \/ MainStep
    \/ RTC_checkWakeup
    \/ RTC_clearWakeup
    \/ RTC_getPassedSleeptime
    \/ RTC_IRQHandler
    \/ RTC_Count
    \/ SysTick_Handler
    \/ SysTick_HandlerMany

NoWakeSpec == Init /\ [][NoWakeNext]_vars /\ Fairness

----------------------------------------------------------------------------
(* Properties *)

\* delay / sleep has executed its last statement and returns
Returning(op) == pc = "ret" /\ call.op = op

\* C1: a sleep(n), n > 0, with an accepted tick count that is ended by the
\* compare match resumes only after RTC_IRQHandler has completed (counter
\* stopped, COMP0 flag cleared, wake flag raised) and returns with the wake
\* flag true, whatever the flag was at the call.
C1_SleepByCompareRaisesWake ==
    /\ (pc \in {"s_resume", "s_clockoff"} /\ call.woke = "compare")
          => (~rtc.en /\ ~rtc.ifl /\ RTC_sleep_wakeup)
    /\ (Returning("sleep") /\ call.path = "compare") => RTC_sleep_wakeup

C1_Witness ==
    /\ Returning("sleep")
    /\ call.path = "compare"
    /\ call.arg = U32(5)
    /\ ~call.wake0
    /\ RTC_sleep_wakeup

\* C2: a delay(n) called with the wake flag false never raises it: the flag
\* is false at every point of the call and at its return, for every n and
\* both ways the wait can end.
C2_DelayNeverRaisesWake ==
    (call.op = "delay" /\ pc # "idle" /\ ~call.wake0) => ~RTC_sleep_wakeup

C2_Witness ==
    /\ Returning("delay")
    /\ call.path = "compare"
    /\ ~call.wake0
    /\ RTC_initialized
    /\ ~call.first

\* C3 (as claimed): a sleep ended by an external wake signal returns with
\* the wake flag equal to its value at the call.
C3_EarlyWakeKeepsWake ==
    (Returning("sleep") /\ call.path = "external")
        => RTC_sleep_wakeup = call.wake0

\* the exact product sSleep * frequency exceeds the 24-bit field
ExactProductExceeds(sSleep) == Lt32(U32(FIELD_MAX \div Freq), sSleep)

\* C4 (as claimed): a sleep(s) whose exact product s * frequency exceeds
\* 16777215 is rejected: it writes no compare value, does not start the
\* counter, does not wait, and returns with the RTC clock gate disabled.
C4_SleepRejectsEveryTooLong ==
    (call.op = "sleep" /\ pc # "idle" /\ ExactProductExceeds(call.arg))
        => /\ ~call.wroteComp
           /\ ~call.started
           /\ ~call.waited
           /\ (pc = "ret" => ~cmu.rtc)

\* C5 (as claimed): a call that takes the out-of-range branch returns with
\* the RTC clock gate disabled and with the counter enable, the compare
\* register, the sleeping flag (false) and the wake flag as they were at
\* the call, and never entered the low-power state.
C5_OutOfRangeNoSideEffects ==
    (pc = "ret" /\ call.path = "out_of_range")
        => /\ ~cmu.rtc
           /\ rtc.en = call.en0
           /\ rtc.comp0 = call.comp00
           /\ ~sleeping
           /\ sleeping = call.sleeping0
           /\ RTC_sleep_wakeup = call.wake0
           /\ ~call.waited

\* ticks a delay(d) has to wait for: d SysTick ticks, or the integer part
\* of d * ticks-per-millisecond RTC ticks
RequiredTicks(msDelay) ==
    IF SYSTICKDELAY = 1 THEN Val(msDelay) ELSE Val(delay_ticks(msDelay))

\* C6 (as claimed): a delay(d), d > 0, within the representable range
\* returns only after at least d milliseconds' worth of ticks were counted
\* since the wait started.
C6_DelayWaitsAtLeast ==
    (Returning("delay") /\ call.path \in {"ticks", "compare", "external"})
        => call.ticks >= RequiredTicks(call.arg)

\* C7 (as claimed): delay(0) and sleep(0) write no compare value, do not
\* start the timing counter or its interrupt, do not wait, and leave the
\* initialization flag of their back-end true.
C7_ZeroOnlyInitializes ==
    (pc = "ret" /\ call.arg = Zero32)
        => /\ call.path = "init_only"
           /\ ~call.wroteComp
           /\ ~call.started
           /\ ~call.waited
           /\ rtc.comp0 = call.comp00
           /\ IF call.op = "delay" /\ SYSTICKDELAY = 1
              THEN SysTick_initialized ELSE RTC_initialized

\* C8 (as claimed): whenever delay or sleep returns, and whenever no call
\* is in progress, the RTC clock gate is disabled.
C8_ClockGateOffOutsideCalls ==
    pc \in {"ret", "idle"} => ~cmu.rtc

\* C9 (as claimed): whenever delay or sleep returns, the timing counter is
\* stopped: the RTC counter is not enabled and SysTick is disabled.
C9_CounterStoppedOnReturn ==
    pc = "ret" => (~rtc.en /\ ~sysTick)

\* C10 (as claimed): RTC_getPassedSleeptime called directly after a sleep(n)
\* that was ended by the compare match returns at least n, leaves the counter
\* disabled, and a second consecutive call returns no more than the first.
C10_PassedAtLeastRequested ==
    (last \in {"passed1", "passed2"} /\ call.op = "sleep" /\ call.path = "compare")
        => /\ gps[1] >= Val(call.arg)
           /\ ~rtc.en
           /\ (last = "passed2" => gps[2] <= gps[1])

\* C10 (amended): after a sleep(n) ended by the compare match the handler
\* has stopped and thereby cleared the counter, so the call returns 0 (less
\* than n), leaves the counter disabled, and a second consecutive call
\* returns no more than the first.
C10_PassedIsZeroAfterCompare ==
    (last \in {"passed1", "passed2"} /\ call.op = "sleep" /\ call.path = "compare")
        => /\ gps[1] = 0
           /\ gps[1] < Val(call.arg)
           /\ ~rtc.en
           /\ (last = "passed2" => gps[2] <= gps[1])

C10_Witness ==
    /\ last = "passed2"
    /\ call.op = "sleep"
    /\ call.path = "compare"
    /\ call.arg = U32(5)
    /\ ULFRCO = 0
    /\ gps = <<0, 0>>

\* the exact product msDelay * ticks-per-millisecond exceeds the 24-bit field
ExactDelayExceeds(msDelay) ==
    IF ULFRCO = 1 THEN Lt32(U32(FIELD_MAX), msDelay)
    ELSE msDelay[1] >= 8 \/ Val(msDelay) * 4096 > FIELD_MAX * 125

\* v is duration * frequency in the caller's unit: s * FREQ for sleep, the
\* integer part of ms * FREQ / 1000 for delay (32768/1000 = 4096/125)
IsTickCount(v, op, d) ==
    IF op = "sleep" THEN v % Freq = 0 /\ U32(v \div Freq) = d
    ELSE IF ULFRCO = 1 THEN U32(v) = d
    ELSE d[1] < 8 /\ v * 125 <= Val(d) * 4096 /\ Val(d) * 4096 < (v + 1) * 125

\* C11 (as claimed): in the RTC back-end the compare value written for an
\* accepted duration is duration * tick frequency in the caller's unit, and
\* a duration is accepted exactly when that product is at most 16777215.
C11_CompareIsExactProduct ==
    /\ pc \in {"s_flag", "dR_enable"}
          => /\ IsTickCount(rtc.comp0, call.op, call.arg)
             /\ rtc.comp0 <= FIELD_MAX
    /\ (pc = "ret" /\ call.path = "out_of_range")
          => IF call.op = "sleep" THEN ExactProductExceeds(call.arg)
             ELSE ExactDelayExceeds(call.arg)
    /\ (call.wroteComp /\ pc # "idle")
          => IF call.op = "sleep" THEN ~ExactProductExceeds(call.arg)
             ELSE ~ExactDelayExceeds(call.arg)

\* the call in progress has passed the initialization step of its back-end
PastInit == pc \notin {"idle", "s_init", "dS_init", "dR_init"}

\* C12: each back-end is initialized at most once: initRTC and SysTick_Config
\* have run exactly once when the readiness flag is true and never when it is
\* false, and a call that is past its initialization step has the flag of
\* the back-end it uses set.
C12_InitAtMostOnce ==
    /\ inits.rtc = (IF RTC_initialized THEN 1 ELSE 0)
    /\ inits.sysTick = (IF SysTick_initialized THEN 1 ELSE 0)
    /\ (PastInit /\ (call.op = "sleep" \/ SYSTICKDELAY = 0)) => RTC_initialized
    /\ (PastInit /\ call.op = "delay" /\ SYSTICKDELAY = 1) => SysTick_initialized

\* a second delay in the tick back-end has waited without initializing again,
\* after a sleep that had found the RTC initialized
C12_Witness ==
    /\ pc = "ret" /\ call.op = "delay" /\ call.path = "ticks"
    /\ ~call.first /\ call.ticks >= Val(call.arg)
    /\ inits = [rtc |-> 1, sysTick |-> 1]

\* C13: the wake flag goes from true to false only in RTC_clearWakeup, from
\* false to true only in a run of the compare-match handler that finds
\* sleeping true, and RTC_checkWakeup returns the flag and leaves it as it is.
C13_WakeFlagSticky ==
    [][/\ (RTC_sleep_wakeup /\ ~RTC_sleep_wakeup') => RTC_clearWakeup
       /\ (~RTC_sleep_wakeup /\ RTC_sleep_wakeup') => (sleeping /\ RTC_IRQHandler)
       /\ RTC_checkWakeup => (chk' = RTC_sleep_wakeup /\ RTC_sleep_wakeup' = RTC_sleep_wakeup)
      ]_vars

\* the flag raised by a completed sleep has survived a later delay that ran to
\* its own compare match, and RTC_checkWakeup has just returned it
C13_Witness ==
    /\ last \in {"check", "clear_check"} /\ chk /\ RTC_sleep_wakeup
    /\ call.op = "delay" /\ call.wake0 /\ call.path = "compare"

\* C14: RTC_checkWakeup called directly after RTC_clearWakeup returns false.
C14_ClearThenCheckIsFalse == last = "clear_check" => ~chk

\* the pair has been called after a sleep that completed by compare match and
\* had raised the flag
C14_Witness ==
    /\ last = "clear_check" /\ ~chk /\ ~RTC_sleep_wakeup
    /\ call.op = "sleep" /\ call.path = "compare" /\ call.woke = "compare"

\* C17: sleeping is true only inside a sleep(n), n > 0, whose duration was
\* accepted, from "sleeping = true" before the wait to "sleeping = false"
\* after the wake-up; it is false in every delay, in sleep(0), on the
\* out-of-range path and when no call is in progress.
C17_SleepingOnlyInsideSleepWait ==
    sleeping => /\ call.op = "sleep"
                /\ Lt32(Zero32, call.arg)
                /\ call.wroteComp
                /\ pc \in {"s_enable", "s_em", "s_wait", "s_resume"}

\* the CPU is in EM2/EM3 inside an accepted sleep with the flag set
C17_Witness == sleeping /\ pc = "s_wait" /\ call.op = "sleep" /\ rtc.en

\* C18: a run of the compare-match handler leaves the counter stopped and the
\* compare interrupt flag cleared, raises the wake flag exactly when sleeping
\* is true and never lowers it, and leaves the clock gates, the compare
\* register, sleeping and the two initialization flags as they were.
C18_HandlerFrame ==
    [][RTC_IRQHandler =>
          /\ ~rtc'.en /\ ~rtc'.ifl
          /\ RTC_sleep_wakeup' = (RTC_sleep_wakeup \/ sleeping)
          /\ cmu' = cmu
          /\ rtc'.comp0 = rtc.comp0
          /\ UNCHANGED <<sleeping, RTC_initialized, SysTick_initialized>>
      ]_vars

\* the handler has just ended the wait of a delay: counter stopped, interrupt
\* flag cleared, clock gate still open, wake flag still false
C18_Witness ==
    /\ pc = "dR_clockoff" /\ call.woke = "compare"
    /\ ~rtc.en /\ ~rtc.ifl /\ cmu.rtc /\ rtc.comp0 > 0
    /\ ~RTC_sleep_wakeup /\ ~sleeping

\* C20 (as claimed): every accepted delay(n) or sleep(n), n > 0, of the RTC
\* back-end starts its wait with the counter at zero, so a wait that ends by
\* compare match has lasted exactly the programmed number of ticks.
C20_WaitStartsAtZero ==
    /\ pc \in {"s_em", "dR_em"} => call.cnt0 = 0
    /\ (pc \in {"s_resume", "dR_clockoff"} /\ call.woke = "compare" /\ rtc.comp0 > 0)
          => call.ticks = rtc.comp0

\* C19 (as claimed): RTC_getPassedSleeptime called after a sleep(n) that an
\* external wake-up ended returns floor(t / frequency) for the counter value
\* t, a value of at most n; it disables the counter and leaves the wake flag,
\* sleeping and the compare register as they were.
C19_PassedAfterEarlyWake ==
    [][(RTC_getPassedSleeptime /\ last = "sleep" /\ call.path = "external") =>
          /\ gps'[1] = rtc.cnt \div Freq
          /\ Le32(U32(gps'[1]), call.arg)
          /\ ~rtc'.en
          /\ rtc'.comp0 = rtc.comp0
          /\ UNCHANGED <<RTC_sleep_wakeup, sleeping>>
      ]_vars

\* C15 (as claimed): when no external wake-up arrives and the counter keeps
\* counting, a delay or sleep that has started the counter eventually returns.
C15_StartedWaitReturns == (pc \in {"s_em", "dR_em"}) ~> (pc = "ret")

\* C16: in the tick back-end delay(d), d > 0, is in its loop while fewer than
\* d ticks have arrived since the loop started, whatever value msTicks had,
\* leaves it when exactly d ticks have arrived, and does leave it when the
\* tick handler keeps firing.
C16_TickDelayExact ==
    /\ [](pc = "dS_loop" => /\ U32(call.ticks) = Sub32(msTicks, curTicks)
                            /\ Le32(U32(call.ticks), call.arg))
    /\ [](pc = "dS_disable" => U32(call.ticks) = call.arg)
    /\ (pc = "dS_loop") ~> (pc = "dS_disable")

\* a delay(2) has left its loop after msTicks wrapped from 2^32 - 1 to 0
C16_Witness ==
    /\ pc = "dS_disable" /\ call.arg = U32(2) /\ call.ticks = 2
    /\ curTicks = UINT32_MAX /\ msTicks = U32(1)

\* C21: compare register 0 never holds more than 16777215: the value written
\* by RTC_CompareSet is the value that passed the range check of delay or
\* sleep, for every 32-bit argument.
C21_CompareWithinField ==
    /\ rtc.comp0 <= FIELD_MAX
    /\ pc = "s_flag" => /\ sleep_fits(call.arg)
                        /\ U32(rtc.comp0) = sleep_ticks(call.arg)
    /\ pc = "dR_enable" => /\ delay_fits(call.arg)
                           /\ U32(rtc.comp0) = delay_ticks(call.arg)

\* the largest multiple of the tick frequency that fits the field has just
\* been written over a smaller compare value
C21_Witness ==
    /\ call.wroteComp /\ pc \in {"s_flag", "dR_enable"}
    /\ rtc.comp0 = (FIELD_MAX \div Freq) * Freq
    /\ call.comp00 < rtc.comp0

====
